---- MODULE Spec2Model ----
(***************************************************************************)
(* A model of thornpy: signal.check_num_points, signal._get_conversion_to_hz, *)
(* signal._clean_sig, signal.step_function, numtype.str_is_int and the      *)
(* numerical steps of signal.fft_watefall (with _add_order_lines,           *)
(* _order_cut_plot and _find_nearest).                                      *)
(*                                                                         *)
(* Every function is an operator computed the way the code computes it; a  *)
(* call is an action that stores the operator's outcome in `result`.  An    *)
(* outcome is a record whose `kind` is "return" or the name of the Python   *)
(* exception that ends the call.  Python's None is the record None, a      *)
(* given argument v is Some(v).  Real numbers are exact rationals <<n, d>>  *)
(* with d > 0 (floating-point rounding is not modelled).  Strings are       *)
(* sequences of one-character strings.                                      *)
(***************************************************************************)
EXTENDS Integers, Sequences, FiniteSets, TLC

VARIABLES
    pc,                 \* position of the running call
    done_steps,         \* history: the computation steps fft_watefall has completed
    result,             \* outcome of the call: [kind |-> ..., ...]
    num, n_fft,         \* check_num_points(num, n_fft); n_fft of fft_watefall
    input_unit,         \* _get_conversion_to_hz(input_unit); input_unit of fft_watefall
    sig, n_sigma,       \* _clean_sig(sig, n_sigma): sig carries its dtype
    numeric_string,     \* str_is_int(numeric_string)
    index, start, init_val, end, final_val,   \* step_function arguments
    step,               \* step_function's list under construction
    \* fft_watefall's arguments
    time, percent_overlap, clean_sig_arg, input_sig, order_lines,
    return_order_cuts, psd, z_scale, response_unit,
    \* fft_watefall's locals
    i_removed, freqs, bins, Pxx, input_sig_rpm, input_bins, y_label, order_cuts

None == [given |-> FALSE]
Some(v) == [given |-> TRUE, val |-> v]

Abs(x) == IF x < 0 THEN -x ELSE x

Range(s) == {s[i] : i \in 1..Len(s)}

-----------------------------------------------------------------------------
(* check_num_points                                                        *)

\* Largest sample count and window size tried.
MaxNum == 9

\* range(100): the exponents of the candidate window sizes.
NumExponents == 100

\* 2**e <= n, by halving n (2**99 is never built: 2**e <= n iff 2**(e-1) <= n \div 2).
RECURSIVE Pow2Leq(_, _)
Pow2Leq(e, n) ==
    IF n < 1 THEN FALSE
    ELSE IF e = 0 THEN TRUE
    ELSE Pow2Leq(e - 1, n \div 2)

\* The mutated test of line 249: <= instead of <.
TooFewPointsOrEqual(n, nfft) == n <= nfft

\* `if num < n_fft`
TooFewPoints(n, nfft) == n < nfft

\* The mutated scan: the candidates in ascending order.
ScanPowersAscending(n, e) ==
    LET RECURSIVE Up(_)
        Up(k) == IF k > e THEN [kind |-> "ValueError", has_suggestion |-> FALSE, suggested_n |-> 0]
                 ELSE IF Pow2Leq(k, n)
                      THEN [kind |-> "ValueError", has_suggestion |-> TRUE, suggested_n |-> 2^k]
                      ELSE Up(k + 1)
    IN Up(0)

\* `for pow_2 in [2**e for e in range(100)][::-1]`: the candidates from 2**e
\* downwards; the first that fits is named in the error, and the error after
\* the loop names none.
RECURSIVE ScanPowers(_, _)
ScanPowers(n, e) ==
    IF e < 0 THEN [kind |-> "ValueError", has_suggestion |-> FALSE, suggested_n |-> 0]
    ELSE IF Pow2Leq(e, n)
         THEN [kind |-> "ValueError", has_suggestion |-> TRUE, suggested_n |-> 2^e]
         ELSE ScanPowers(n, e - 1)

check_num_points(n, nfft) ==
    IF TooFewPoints(n, nfft)
    THEN ScanPowers(n, NumExponents - 1)
    ELSE [kind |-> "return"]

-----------------------------------------------------------------------------
(* Strings                                                                 *)

UpperToLower ==
    ("A" :> "a") @@ ("B" :> "b") @@ ("C" :> "c") @@ ("D" :> "d") @@ ("E" :> "e") @@
    ("F" :> "f") @@ ("G" :> "g") @@ ("H" :> "h") @@ ("I" :> "i") @@ ("J" :> "j") @@
    ("K" :> "k") @@ ("L" :> "l") @@ ("M" :> "m") @@ ("N" :> "n") @@ ("O" :> "o") @@
    ("P" :> "p") @@ ("Q" :> "q") @@ ("R" :> "r") @@ ("S" :> "s") @@ ("T" :> "t") @@
    ("U" :> "u") @@ ("V" :> "v") @@ ("W" :> "w") @@ ("X" :> "x") @@ ("Y" :> "y") @@
    ("Z" :> "z")

\* str.lower()
lower(s) ==
    [i \in 1..Len(s) |-> IF s[i] \in DOMAIN UpperToLower THEN UpperToLower[s[i]] ELSE s[i]]

\* str.upper(), used only to build inputs
upper(s) ==
    [i \in 1..Len(s) |->
        IF \E c \in DOMAIN UpperToLower : UpperToLower[c] = s[i]
        THEN CHOOSE c \in DOMAIN UpperToLower : UpperToLower[c] = s[i]
        ELSE s[i]]

\* str.capitalize(), used only to build inputs
capitalize(s) ==
    IF s = <<>> THEN s ELSE upper(SubSeq(s, 1, 1)) \o SubSeq(s, 2, Len(s))

\* str.startswith(p)
startswith(s, p) == Len(s) >= Len(p) /\ SubSeq(s, 1, Len(p)) = p

\* str.endswith(p)
endswith(s, p) == Len(s) >= Len(p) /\ SubSeq(s, Len(s) - Len(p) + 1, Len(s)) = p

-----------------------------------------------------------------------------
(* _get_conversion_to_hz                                                   *)

str_rpm == <<"r", "p", "m">>
str_hz == <<"h", "z">>
str_deg == <<"d", "e", "g">>
str_per_s == <<"/", "s">>
str_per_sec == <<"/", "s", "e", "c">>
str_furlongs == <<"f", "u", "r", "l", "o", "n", "g", "s", "/",
                  "f", "o", "r", "t", "n", "i", "g", "h", "t">>

\* The if/elif chain binds input_to_hz in three branches and has no else:
\* `return input_to_hz` with the local unbound raises UnboundLocalError.
get_conversion_to_hz(unit) ==
    IF lower(unit) = str_rpm
    THEN [kind |-> "return", input_to_hz |-> <<1, 60>>]
    ELSE IF lower(unit) = str_hz
    THEN [kind |-> "return", input_to_hz |-> <<1, 1>>]
    ELSE IF /\ startswith(lower(unit), str_deg)
            /\ \/ endswith(lower(unit), str_per_s)
               \/ endswith(lower(unit), str_per_sec)
    THEN [kind |-> "return", input_to_hz |-> <<1, 360>>]
    ELSE [kind |-> "UnboundLocalError"]

\* The unit tags tried: stems and suffixes in three spellings of case.
UnitStems ==
    { str_deg, str_deg \o <<"s">>, str_deg \o <<"r", "e", "e", "s">>,
      <<"r", "a", "d">>, <<"r", "e", "v">>, <<>> }
UnitSuffixes ==
    { str_per_s, str_per_sec, <<"/", "m", "i", "n">>, <<"/", "h", "r">>, <<>> }
UnitWords ==
    { str_rpm, str_hz, str_furlongs, str_rpm \o <<"s">>, <<"k">> \o str_hz }
UnitTags ==
    LET base == {a \o b : a \in UnitStems, b \in UnitSuffixes} \cup UnitWords
    IN  base \cup {upper(t) : t \in base} \cup {capitalize(t) : t \in base}

-----------------------------------------------------------------------------
(* _clean_sig                                                              *)

\* Longest signal tried.
MaxSigLen == 5
SampleValues == {-10, 0, 9, 100}
NSigmas == {0, 1, 2}

\* A signal is [dtype, twice]: np.array(sig) is an int64 array for a list of
\* ints and a float64 array for a list of floats, and `twice` holds each
\* sample doubled, so that the mean of two integer-valued samples is an
\* integer here.

RECURSIVE SeqSum(_)
SeqSum(s) == IF s = <<>> THEN 0 ELSE s[1] + SeqSum(Tail(s))

\* n*n times the variance np.std(x) is the square root of.
ScaledVariance(x) ==
    Len(x) * SeqSum([i \in 1..Len(x) |-> x[i] * x[i]]) - SeqSum(x) * SeqSum(x)

\* n_sigma * np.std(x) <= d, in exact arithmetic.
ThresholdLeq(ns, x, d) ==
    LET lhs == ns * ns * ScaledVariance(x)
        rhs == d * d * Len(x) * Len(x)
    IN  IF ns <= 0 \/ lhs = 0
        THEN d >= 0 \/ lhs >= rhs
        ELSE d >= 0 /\ rhs >= lhs

\* scipy's local-maxima scan over x[1 .. n-2] (the first and the last sample
\* are never maxima); a flat peak is reported at its midpoint.  j is the
\* 1-based position; the indices returned are Python's, 0-based.
RECURSIVE PlateauEnd(_, _)
PlateauEnd(x, k) ==
    IF k < Len(x) /\ x[k] = x[k - 1] THEN PlateauEnd(x, k + 1) ELSE k

RECURSIVE LocalMaxima(_, _)
LocalMaxima(x, j) ==
    IF j >= Len(x) THEN <<>>
    ELSE IF x[j - 1] < x[j]
    THEN LET ahead == PlateauEnd(x, j + 1)
         IN  IF x[ahead] < x[j]
             THEN <<(j + ahead - 1) \div 2 - 1>> \o LocalMaxima(x, ahead + 1)
             ELSE LocalMaxima(x, j + 1)
    ELSE LocalMaxima(x, j + 1)

\* The mutated peak finder: the first and last samples count as maxima too.
FindPeaksWithEdges(x, ns, ref) ==
    LET n == Len(x)
        cand == {i \in 0..(n - 1) :
                    /\ n >= 2
                    /\ (i = 0 \/ x[i] < x[i + 1])
                    /\ (i = n - 1 \/ x[i + 2] < x[i + 1])}
        RECURSIVE Asc(_)
        Asc(i) == IF i >= n THEN <<>>
                  ELSE (IF i \in cand THEN <<i>> ELSE <<>>) \o Asc(i + 1)
    IN  Asc(0)

\* find_peaks(x, threshold=t): the local maxima whose vertical distance to
\* both neighbouring samples is at least t = ns * np.std(ref).
find_peaks(x, ns, ref) ==
    LET maxima == LocalMaxima(x, 2)
        keep(p) == LET dl == x[p + 1] - x[p]
                       dr == x[p + 1] - x[p + 2]
                   IN  ThresholdLeq(ns, ref, IF dl < dr THEN dl ELSE dr)
    IN  SelectSeq(maxima, keep)

\* np.mean([a, b]) stored into the array: a float64 array keeps it, an int64
\* array truncates it towards zero.  a and b are doubled values.
StoreMean(dtype, a, b) ==
    LET m == (a + b) \div 2        \* a + b is even
    IN  IF dtype = "float" \/ m % 2 = 0 THEN m
        ELSE IF m > 0 THEN m - 1 ELSE m + 1

\* `for i_pk in i_pks: sig[i_pk] = np.mean([sig[i_pk-1], sig[i_pk+1]])`
\* Index -1 is the last element; an index beyond the end is an IndexError.
RECURSIVE ReplacePeaks(_, _)
ReplacePeaks(arr, pks) ==
    IF pks = <<>> THEN [kind |-> "return", sig |-> arr]
    ELSE LET i_pk == Head(pks)
             n == Len(arr.twice)
             left == IF i_pk = 0 THEN n ELSE i_pk
         IN  IF i_pk + 1 >= n THEN [kind |-> "IndexError"]
             ELSE ReplacePeaks(
                    [arr EXCEPT !.twice[i_pk + 1] =
                        StoreMean(arr.dtype, arr.twice[left], arr.twice[i_pk + 2])],
                    Tail(pks))

clean_sig(arr, ns) ==
    LET i_pks == find_peaks([i \in 1..Len(arr.twice) |-> Abs(arr.twice[i])], ns, arr.twice)
        out == ReplacePeaks(arr, i_pks)
    IN  IF out.kind = "return"
        THEN [kind |-> "return", sig |-> out.sig, i_pks |-> i_pks]
        ELSE out

-----------------------------------------------------------------------------
(* step_function                                                           *)

\* Longest index list tried, and the largest abscissa (in half units, so
\* that 3.5 is the integer 7).
MaxIndexLen == 3
MaxAbscissa == 4

\* `init_val + height*u**2 * (3-2*u)` with u = (ind-start)/(end-start), as
\* the rational <<numerator, denominator>>.  Only evaluated for
\* start < ind < end, where the denominator is positive.
Cubic(ind, s, iv, e, fv) ==
    LET d == e - s
        a == ind - s
    IN  <<iv * d * d * d + (fv - iv) * a * a * (3 * d - 2 * a), d * d * d>>

\* `[init_val for ind in index if ind <= start]`
StepLow(idx, s, iv) ==
    LET keep(ind) == ind <= s
    IN  [i \in 1..Len(SelectSeq(idx, keep)) |-> <<iv, 1>>]

\* `[... for ind in index if start < ind < end]`
StepMid(idx, s, iv, e, fv) ==
    LET keep(ind) == s < ind /\ ind < e
        mid == SelectSeq(idx, keep)
    IN  [i \in 1..Len(mid) |-> Cubic(mid[i], s, iv, e, fv)]

\* `[final_val for ind in index if ind >= end]`
StepHigh(idx, e, fv) ==
    LET keep(ind) == ind >= e
    IN  [i \in 1..Len(SelectSeq(idx, keep)) |-> <<fv, 1>>]

-----------------------------------------------------------------------------
(* str_is_int                                                              *)

\* Longest string tried, over the characters below.
MaxStrLen == 4
Digits == {"0", "1", "2", "3", "4", "5", "6", "7", "8", "9"}
StrChars == {"0", "7", "-", "."}

\* str.replace(c, '', 1): the first occurrence of c removed.
RECURSIVE RemoveFirst(_, _)
RemoveFirst(s, c) ==
    IF s = <<>> THEN s
    ELSE IF Head(s) = c THEN Tail(s)
    ELSE <<Head(s)>> \o RemoveFirst(Tail(s), c)

\* str.isdigit()
isdigit(s) == s # <<>> /\ \A i \in 1..Len(s) : s[i] \in Digits

str_is_int(s) ==
    IF s # <<>>
    THEN isdigit(RemoveFirst(s, "-"))
    ELSE FALSE

-----------------------------------------------------------------------------
(* fft_watefall: the numerical steps; figure construction is not modelled  *)

\* Most samples in a waterfall input.
MaxSamples == 4

\* Defaults of fft_watefall and _order_cut_plot.
response_conversion_factor == 1
input_conversion_factor == <<60, 360>>
default_input_to_hz == <<1, 60>>

RECURSIVE GCD(_, _)
GCD(a, b) == IF b = 0 THEN a ELSE GCD(b, a % b)

\* The rational n/d (d > 0) in lowest terms.
Rat(n, d) == LET g == GCD(Abs(n), d) IN <<n \div g, d \div g>>

RatMul(x, y) == Rat(x[1] * y[1], x[2] * y[2])
RatAbs(x) == <<Abs(x[1]), x[2]>>
RatAbsDiff(x, y) == Rat(Abs(x[1] * y[2] - y[1] * x[2]), x[2] * y[2])
RatLess(x, y) == x[1] * y[2] < y[1] * x[2]
RatEq(x, y) == x[1] * y[2] = y[1] * x[2]

\* `[v*response_conversion_factor for v in sig]`
scale_sig(s, factor) == [s EXCEPT !.twice = [i \in 1..Len(s.twice) |-> s.twice[i] * factor]]

\* `t_s = (time[-1] - time[0])/(len(time) - 1)` and `f_s = 1/t_s`, for a time
\* vector of at least two strictly increasing samples (so that t_s > 0).
sample_rate(t) == Rat(Len(t) - 1, t[Len(t)] - t[1])

\* specgram's frequency vector: k * Fs / NFFT for the one-sided spectrum.
specgram_freqs(nfft, f_s) ==
    LET numFreqs == IF nfft % 2 = 0 THEN nfft \div 2 + 1 ELSE (nfft + 1) \div 2
    IN  [k \in 1..numFreqs |-> Rat((k - 1) * f_s[1], nfft * f_s[2])]

\* specgram's time bins: the centers of the segments of NFFT samples that
\* start every NFFT - noverlap samples, noverlap = percent_overlap/100*n_fft.
specgram_bins(nfft, percent, n, f_s) ==
    LET hop == (nfft * (100 - percent)) \div 100
        count == IF n < nfft THEN 0 ELSE (n - nfft) \div hop + 1
    IN  [k \in 1..count |-> Rat((nfft + 2 * (k - 1) * hop) * f_s[2], 2 * f_s[1])]

\* specgram's matrix: one row per frequency, one column per time bin.  A
\* cell stands for the value computed there; only its place, mode and scale
\* are modelled.
specgram_Pxx(nrows, ncols, is_psd) ==
    [i \in 1..nrows |-> [j \in 1..ncols |->
        [row |-> i - 1, col |-> j - 1,
         mode |-> IF is_psd THEN "psd" ELSE "magnitude", scale |-> "linear"]]]

\* `np.log10(Pxx) * (20 if psd is False else 10)`
to_dB(P, is_psd) ==
    [i \in 1..Len(P) |-> [j \in 1..Len(P[i]) |->
        [P[i][j] EXCEPT !.scale = IF is_psd THEN "10log10" ELSE "20log10"]]]

\* np.argmax of a boolean array: the index of the first True, and 0 when
\* there is none.
argmax(b) ==
    IF \E i \in 1..Len(b) : b[i]
    THEN (CHOOSE i \in 1..Len(b) : b[i] /\ \A j \in 1..(i - 1) : ~b[j]) - 1
    ELSE 0

\* `np.argmax(time>=t_bn+time[0])`
bin_sample(t, t_bn) ==
    argmax([i \in 1..Len(t) |-> ~RatLess(<<t[i] - t[1], 1>>, t_bn)])

\* `[abs(v*input_conversion_factor) for v in input_sig]`
to_input_sig_rpm(in_sig, factor) ==
    [i \in 1..Len(in_sig) |-> RatAbs(RatMul(<<in_sig[i], 1>>, factor))]

\* `[abs(input_sig_rpm[np.argmax(time>=t_bn+time[0])]) for t_bn in bins]`
to_input_bins(rpm, t, bns) ==
    [k \in 1..Len(bns) |-> RatAbs(rpm[bin_sample(t, bns[k]) + 1])]

\* `(np.abs(array - value)).argmin()`: the first index of the least distance.
find_nearest(array, value) ==
    (CHOOSE i \in 1..Len(array) :
        /\ \A j \in 1..Len(array) : ~RatLess(RatAbsDiff(array[j], value), RatAbsDiff(array[i], value))
        /\ \A j \in 1..(i - 1) : RatLess(RatAbsDiff(array[i], value), RatAbsDiff(array[j], value))) - 1

\* _order_cut_plot.  plt.subplots(nrows=1) returns one Axes, not an array of
\* them, so `zip(axes, orders)` raises TypeError for a single order; input_to_hz
\* is the parameter's default, the caller passes none.
order_cut_plot(in_bins, frqs, P, orders, input_to_hz) ==
    IF Len(orders) = 0 THEN [kind |-> "ValueError"]
    ELSE IF Len(orders) = 1 THEN [kind |-> "TypeError"]
    ELSE [kind |-> "return",
          cuts |-> [o \in 1..Len(orders) |->
            LET freqs_to_plot == [k \in 1..Len(in_bins) |->
                    RatMul(RatMul(in_bins[k], input_to_hz), <<orders[o], 1>>)]
                i_freqs == [k \in 1..Len(in_bins) |-> find_nearest(frqs, freqs_to_plot[k])]
            IN  [order |-> orders[o], i_freqs |-> i_freqs,
                 amp |-> [k \in 1..Len(in_bins) |-> P[i_freqs[k] + 1][k]]]]]

-----------------------------------------------------------------------------
(* State machine                                                           *)

vars == <<pc, done_steps, result, num, n_fft, input_unit, sig, n_sigma, numeric_string,
          index, start, init_val, end, final_val, step,
          time, percent_overlap, clean_sig_arg, input_sig, order_lines,
          return_order_cuts, psd, z_scale, response_unit,
          i_removed, freqs, bins, Pxx, input_sig_rpm, input_bins, y_label, order_cuts>>

NoResult == [kind |-> "running"]

\* The variables a call does not use stay at these values.
IdleCheck == num = 0
IdleUnit == input_unit = <<>>
IdleSignal == sig = [dtype |-> "float", twice |-> <<>>] /\ n_sigma = 0
IdleStr == numeric_string = <<>>
IdleStep ==
    /\ index = <<>> /\ start = 0 /\ init_val = 0 /\ end = 0 /\ final_val = 0
    /\ step = <<>>
IdleWaterfallArgs ==
    /\ time = <<>> /\ percent_overlap = 0 /\ clean_sig_arg = None
    /\ input_sig = None /\ order_lines = None /\ return_order_cuts = None
    /\ psd = FALSE /\ z_scale = "linear" /\ response_unit = None
WaterfallLocalsUnbound ==
    /\ i_removed = <<>> /\ freqs = <<>> /\ bins = <<>> /\ Pxx = <<>>
    /\ input_sig_rpm = <<>> /\ input_bins = <<>> /\ y_label = None
    /\ order_cuts = None
    /\ done_steps = <<>>

SeqsUpTo(S, n) == UNION {[1..k -> S] : k \in 0..n}

(* check_num_points *)

InitCheckNumPoints ==
    /\ pc = "check_num_points" /\ result = NoResult
    /\ num \in 0..MaxNum /\ n_fft \in 0..(MaxNum + 1)
    /\ IdleUnit /\ IdleSignal /\ IdleStr /\ IdleStep
    /\ IdleWaterfallArgs /\ WaterfallLocalsUnbound

CallCheckNumPoints ==
    /\ pc = "check_num_points"
    /\ result' = check_num_points(num, n_fft)
    /\ pc' = "done"
    /\ UNCHANGED <<done_steps, num, n_fft, input_unit, sig, n_sigma, numeric_string,
                   index, start, init_val, end, final_val, step,
                   time, percent_overlap, clean_sig_arg, input_sig, order_lines,
                   return_order_cuts, psd, z_scale, response_unit,
                   i_removed, freqs, bins, Pxx, input_sig_rpm, input_bins, y_label,
                   order_cuts>>

SpecCheckNumPoints == InitCheckNumPoints /\ [][CallCheckNumPoints]_vars

(* _get_conversion_to_hz *)

InitUnits ==
    /\ pc = "_get_conversion_to_hz" /\ result = NoResult
    /\ input_unit \in UnitTags
    /\ IdleCheck /\ n_fft = 0 /\ IdleSignal /\ IdleStr /\ IdleStep
    /\ IdleWaterfallArgs /\ WaterfallLocalsUnbound

CallGetConversionToHz ==
    /\ pc = "_get_conversion_to_hz"
    /\ result' = get_conversion_to_hz(input_unit)
    /\ pc' = "done"
    /\ UNCHANGED <<done_steps, num, n_fft, input_unit, sig, n_sigma, numeric_string,
                   index, start, init_val, end, final_val, step,
                   time, percent_overlap, clean_sig_arg, input_sig, order_lines,
                   return_order_cuts, psd, z_scale, response_unit,
                   i_removed, freqs, bins, Pxx, input_sig_rpm, input_bins, y_label,
                   order_cuts>>

SpecUnits == InitUnits /\ [][CallGetConversionToHz]_vars

(* _clean_sig *)

InitClean ==
    /\ pc = "_clean_sig" /\ result = NoResult
    /\ \E dtype \in {"int", "float"}, values \in SeqsUpTo(SampleValues, MaxSigLen) :
          sig = [dtype |-> dtype, twice |-> [i \in 1..Len(values) |-> 2 * values[i]]]
    /\ n_sigma \in NSigmas
    /\ IdleCheck /\ n_fft = 0 /\ IdleUnit /\ IdleStr /\ IdleStep
    /\ IdleWaterfallArgs /\ WaterfallLocalsUnbound

CallCleanSig ==
    /\ pc = "_clean_sig"
    /\ result' = clean_sig(sig, n_sigma)
    /\ pc' = "done"
    /\ UNCHANGED <<done_steps, num, n_fft, input_unit, sig, n_sigma, numeric_string,
                   index, start, init_val, end, final_val, step,
                   time, percent_overlap, clean_sig_arg, input_sig, order_lines,
                   return_order_cuts, psd, z_scale, response_unit,
                   i_removed, freqs, bins, Pxx, input_sig_rpm, input_bins, y_label,
                   order_cuts>>

SpecClean == InitClean /\ [][CallCleanSig]_vars

(* str_is_int *)

InitStrIsInt ==
    /\ pc = "str_is_int" /\ result = NoResult
    /\ numeric_string \in SeqsUpTo(StrChars, MaxStrLen)
    /\ IdleCheck /\ n_fft = 0 /\ IdleUnit /\ IdleSignal /\ IdleStep
    /\ IdleWaterfallArgs /\ WaterfallLocalsUnbound

CallStrIsInt ==
    /\ pc = "str_is_int"
    /\ result' = [kind |-> "return", is_int |-> str_is_int(numeric_string)]
    /\ pc' = "done"
    /\ UNCHANGED <<done_steps, num, n_fft, input_unit, sig, n_sigma, numeric_string,
                   index, start, init_val, end, final_val, step,
                   time, percent_overlap, clean_sig_arg, input_sig, order_lines,
                   return_order_cuts, psd, z_scale, response_unit,
                   i_removed, freqs, bins, Pxx, input_sig_rpm, input_bins, y_label,
                   order_cuts>>

SpecStrIsInt == InitStrIsInt /\ [][CallStrIsInt]_vars

(* step_function *)

\* The docstring's call, step_function([2, 3, 3.5, 4, 5], 3, 0, 3, 1), in half units.
DocstringCall ==
    /\ index = <<4, 6, 7, 8, 10>> /\ start = 6 /\ init_val = 0 /\ end = 6 /\ final_val = 1

InitStepFunction ==
    /\ pc = "step_low" /\ result = NoResult /\ step = <<>>
    /\ \/ DocstringCall
       \/ /\ index \in SeqsUpTo(0..MaxAbscissa, MaxIndexLen)
          /\ start \in 1..(MaxAbscissa - 1) /\ end \in 1..(MaxAbscissa - 1)
          /\ init_val = 0 /\ final_val \in {1, 2}
    /\ IdleCheck /\ n_fft = 0 /\ IdleUnit /\ IdleSignal /\ IdleStr
    /\ IdleWaterfallArgs /\ WaterfallLocalsUnbound

StepFrame ==
    UNCHANGED <<done_steps, num, n_fft, input_unit, sig, n_sigma, numeric_string,
                index, start, init_val, end, final_val,
                time, percent_overlap, clean_sig_arg, input_sig, order_lines,
                return_order_cuts, psd, z_scale, response_unit,
                i_removed, freqs, bins, Pxx, input_sig_rpm, input_bins, y_label,
                order_cuts>>

\* line 69
StepFunctionLow ==
    /\ pc = "step_low"
    /\ step' = StepLow(index, start, init_val)
    /\ pc' = "step_mid"
    /\ UNCHANGED result /\ StepFrame

\* line 70
StepFunctionMid ==
    /\ pc = "step_mid"
    /\ step' = step \o StepMid(index, start, init_val, end, final_val)
    /\ pc' = "step_high"
    /\ UNCHANGED result /\ StepFrame

\* lines 71-72
StepFunctionHigh ==
    /\ pc = "step_high"
    /\ step' = step \o StepHigh(index, end, final_val)
    /\ result' = [kind |-> "return", step |-> step']
    /\ pc' = "done"
    /\ StepFrame

SpecStepFunction ==
    InitStepFunction /\ [][StepFunctionLow \/ StepFunctionMid \/ StepFunctionHigh]_vars

(* fft_watefall *)

\* Strictly increasing time vectors of n samples (a numpy array: line 196
\* compares it with a number).
RECURSIVE TimeVectors(_)
TimeVectors(n) ==
    IF n = 1 THEN {<<t0>> : t0 \in {0, 1}}
    ELSE {Append(t, t[Len(t)] + dt) : t \in TimeVectors(n - 1), dt \in {1, 2}}

\* Response signals of n samples: flat, and with a spike at index 1.
WaterfallSignals(n) ==
    {[dtype |-> "float", twice |-> [i \in 1..n |-> IF i = 2 THEN 2 * v ELSE 0]] :
        v \in {0, 100}}

\* Input speed signals of n samples, in deg/s: steady, and reversing.
WaterfallInputs(n) ==
    {[i \in 1..n |-> 72], [i \in 1..n |-> IF i % 2 = 1 THEN -36 ELSE 72]}

str_RPM == <<"R", "P", "M">>
str_Hz == <<"H", "z">>

InitWaterfall ==
    /\ pc = "clean" /\ result = NoResult
    /\ \E n \in 2..MaxSamples :
          /\ time \in TimeVectors(n)
          /\ sig \in WaterfallSignals(n)
          /\ \/ /\ input_sig = None
                /\ input_unit = str_RPM /\ order_lines = None /\ return_order_cuts = None
             \/ /\ input_sig = Some([i \in 1..(n + 1) |-> 72])
                /\ input_unit = str_RPM /\ order_lines = None /\ return_order_cuts = None
             \/ /\ \E v \in WaterfallInputs(n) : input_sig = Some(v)
                /\ input_unit \in {str_RPM, str_Hz, str_furlongs}
                /\ order_lines \in {None, Some(<<1>>)}
                /\ return_order_cuts \in {None, Some(<<1>>), Some(<<1, 2>>)}
    /\ n_fft \in 1..(MaxSamples + 1)
    \* noverlap = percent_overlap/100*n_fft is a whole number of samples
    /\ percent_overlap \in {0, 50}
    /\ (n_fft * percent_overlap) % 100 = 0
    /\ clean_sig_arg \in {None, Some(1)}
    /\ \E d \in { <<FALSE, "linear", Some("g")>>, <<TRUE, "dB", None>>,
                  <<FALSE, "dB", None>> } :
          psd = d[1] /\ z_scale = d[2] /\ response_unit = d[3]
    /\ IdleCheck /\ n_sigma = 0 /\ IdleStr /\ IdleStep
    /\ WaterfallLocalsUnbound

WaterfallArgs ==
    <<num, n_fft, input_unit, n_sigma, numeric_string,
      index, start, init_val, end, final_val, step,
      time, percent_overlap, clean_sig_arg, input_sig, order_lines,
      return_order_cuts, psd, z_scale, response_unit>>

Raise(err) == result' = err /\ pc' = "done"

\* `z_scale.lower() == 'db'`
IsDb(z) == z \in {"db", "dB", "Db", "DB"}

\* lines 126-127
WfClean ==
    /\ pc = "clean"
    /\ IF clean_sig_arg.given
       THEN LET out == clean_sig(sig, clean_sig_arg.val)
            IN  IF out.kind = "return"
                THEN /\ sig' = out.sig /\ i_removed' = out.i_pks
                     /\ done_steps' = Append(done_steps, "clean")
                     /\ pc' = "scale" /\ UNCHANGED result
                ELSE /\ Raise(out)
                     /\ UNCHANGED <<sig, i_removed, done_steps>>
       ELSE pc' = "scale" /\ UNCHANGED <<sig, i_removed, done_steps, result>>
    /\ UNCHANGED <<WaterfallArgs, freqs, bins, Pxx, input_sig_rpm, input_bins,
                   y_label, order_cuts>>

\* lines 130-131
WfScale ==
    /\ pc = "scale"
    /\ sig' = scale_sig(sig, response_conversion_factor)
    /\ done_steps' = Append(done_steps, "scale")
    /\ pc' = "check"
    /\ UNCHANGED <<WaterfallArgs, result, i_removed, freqs, bins, Pxx, input_sig_rpm,
                   input_bins, y_label, order_cuts>>

\* line 133
WfCheckNumPoints ==
    /\ pc = "check"
    /\ LET out == check_num_points(Len(time), n_fft)
       IN  IF out.kind = "return"
           THEN pc' = "specgram" /\ UNCHANGED result
           ELSE Raise(out)
    /\ UNCHANGED <<WaterfallArgs, done_steps, sig, i_removed, freqs, bins, Pxx,
                   input_sig_rpm, input_bins, y_label, order_cuts>>

\* lines 135-151
WfSpecgram ==
    /\ pc = "specgram"
    /\ LET f_s == sample_rate(time)
       IN  /\ freqs' = specgram_freqs(n_fft, f_s)
           /\ bins' = specgram_bins(n_fft, percent_overlap, Len(sig.twice), f_s)
    /\ Pxx' = specgram_Pxx(Len(freqs'), Len(bins'), psd)
    /\ done_steps' = Append(done_steps, "spectrogram")
    /\ pc' = "dB"
    /\ UNCHANGED <<WaterfallArgs, result, sig, i_removed, input_sig_rpm, input_bins,
                   y_label, order_cuts>>

\* lines 154-155
WfToDb ==
    /\ pc = "dB"
    /\ IF IsDb(z_scale)
       THEN Pxx' = to_dB(Pxx, psd) /\ done_steps' = Append(done_steps, "dB")
       ELSE UNCHANGED <<Pxx, done_steps>>
    /\ pc' = "input"
    /\ UNCHANGED <<WaterfallArgs, result, sig, i_removed, freqs, bins, input_sig_rpm,
                   input_bins, y_label, order_cuts>>

\* lines 177, 192-193
WfCheckInput ==
    /\ pc = "input"
    /\ IF ~input_sig.given THEN pc' = "return" /\ UNCHANGED result
       ELSE IF Len(input_sig.val) # Len(time) THEN Raise([kind |-> "ValueError"])
       ELSE pc' = "speed" /\ UNCHANGED result
    /\ UNCHANGED <<WaterfallArgs, done_steps, sig, i_removed, freqs, bins, Pxx,
                   input_sig_rpm, input_bins, y_label, order_cuts>>

\* lines 195-196
WfSpeedBins ==
    /\ pc = "speed"
    /\ input_sig_rpm' = to_input_sig_rpm(input_sig.val, input_conversion_factor)
    /\ input_bins' = to_input_bins(input_sig_rpm', time, bins)
    /\ done_steps' = Append(done_steps, "speed_bins")
    /\ pc' = "order_lines"
    /\ UNCHANGED <<WaterfallArgs, result, sig, i_removed, freqs, bins, Pxx, y_label,
                   order_cuts>>

\* lines 220-221, and line 283 of _add_order_lines
WfOrderLines ==
    /\ pc = "order_lines"
    /\ IF order_lines.given /\ get_conversion_to_hz(input_unit).kind # "return"
       THEN Raise(get_conversion_to_hz(input_unit))
       ELSE pc' = "label" /\ UNCHANGED result
    /\ UNCHANGED <<WaterfallArgs, done_steps, sig, i_removed, freqs, bins, Pxx,
                   input_sig_rpm, input_bins, y_label, order_cuts>>

\* lines 223-230: y_label is bound in two branches only, and read at line 230
WfLabel ==
    /\ pc = "label"
    /\ IF psd
       THEN /\ y_label' = Some(IF IsDb(z_scale) THEN "dB" ELSE "unit^2/Hz")
            /\ pc' = "order_cuts" /\ UNCHANGED result
       ELSE IF response_unit.given
       THEN /\ y_label' = Some(IF IsDb(z_scale) THEN "dB" ELSE "unit")
            /\ pc' = "order_cuts" /\ UNCHANGED result
       ELSE Raise([kind |-> "UnboundLocalError"]) /\ UNCHANGED y_label
    /\ UNCHANGED <<WaterfallArgs, done_steps, sig, i_removed, freqs, bins, Pxx,
                   input_sig_rpm, input_bins, order_cuts>>

\* lines 233-234
WfOrderCuts ==
    /\ pc = "order_cuts"
    /\ IF return_order_cuts.given
       THEN LET out == order_cut_plot(input_bins, freqs, Pxx, return_order_cuts.val,
                                      default_input_to_hz)
            IN  IF out.kind = "return"
                THEN /\ order_cuts' = Some(out.cuts)
                     /\ done_steps' = Append(done_steps, "order_cuts")
                     /\ pc' = "return" /\ UNCHANGED result
                ELSE Raise(out) /\ UNCHANGED <<order_cuts, done_steps>>
       ELSE pc' = "return" /\ UNCHANGED <<order_cuts, done_steps, result>>
    /\ UNCHANGED <<WaterfallArgs, sig, i_removed, freqs, bins, Pxx, input_sig_rpm,
                   input_bins, y_label>>

\* lines 236-246
WfReturn ==
    /\ pc = "return"
    /\ result' = [kind |-> "return"]
    /\ pc' = "done"
    /\ UNCHANGED <<WaterfallArgs, done_steps, sig, i_removed, freqs, bins, Pxx,
                   input_sig_rpm, input_bins, y_label, order_cuts>>

NextWaterfall ==
    \/ WfClean \/ WfScale \/ WfCheckNumPoints \/ WfSpecgram \/ WfToDb
    \/ WfCheckInput \/ WfSpeedBins \/ WfOrderLines \/ WfLabel \/ WfOrderCuts
    \/ WfReturn

SpecWaterfall == InitWaterfall /\ [][NextWaterfall]_vars

-----------------------------------------------------------------------------
(* Properties                                                              *)

\* p is the largest power of two that is <= n
LargestPowerOfTwo(p, n) ==
    /\ \E e \in 0..(NumExponents - 1) : Pow2Leq(e, n) /\ ~Pow2Leq(e + 1, n) /\ p = 2^e
    /\ p <= n /\ n < 2 * p

\* C1: check_num_points(num, n_fft) returns when n_fft <= num and raises
\* ValueError when n_fft > num.
C1_RaisesIffTooFewPoints ==
    pc = "done" =>
        /\ n_fft <= num => result.kind = "return"
        /\ n_fft > num => result.kind = "ValueError"

C1_Witness ==
    pc = "done" /\ n_fft > num /\ num > 0 /\ result.kind = "ValueError"

\* C2 as claimed: the error names the largest power of two <= num, and names
\* none exactly when there are fewer than 2 samples.
C2_NoSuggestionBelowTwoSamples ==
    (pc = "done" /\ n_fft > num) =>
        /\ result.kind = "ValueError"
        /\ result.has_suggestion <=> ~(num < 2)
        /\ result.has_suggestion => LargestPowerOfTwo(result.suggested_n, num)

\* C2 as amended: the error names the largest power of two <= num, and names
\* none exactly when there are no samples (1 = 2**0 is a candidate, so one
\* sample gets the suggestion 1).
C2_NoSuggestionIffNoSamples ==
    (pc = "done" /\ n_fft > num) =>
        /\ result.kind = "ValueError"
        /\ result.has_suggestion <=> num >= 1
        /\ result.has_suggestion => LargestPowerOfTwo(result.suggested_n, num)

C2_Witness ==
    /\ pc = "done" /\ num = 1 /\ n_fft > num
    /\ result.kind = "ValueError" /\ result.has_suggestion /\ result.suggested_n = 1

RecognizedUnits ==
    { str_rpm, str_hz, str_deg \o str_per_s, str_deg \o <<"s">> \o str_per_s,
      str_deg \o str_per_sec, str_deg \o <<"s">> \o str_per_sec }

\* The multiplier the specification gives a recognized unit.
SpecFactor(unit) ==
    IF lower(unit) = str_rpm THEN <<1, 60>>
    ELSE IF lower(unit) = str_hz THEN <<1, 1>>
    ELSE <<1, 360>>

\* C4: _get_conversion_to_hz returns 1/60 for RPM, 1 for Hz and 1/360 for the
\* four deg/s spellings (1200 RPM is 20 Hz), and raises for every other tag.
C4_FactorOrError ==
    pc = "done" =>
        IF lower(input_unit) \in RecognizedUnits
        THEN /\ result.kind = "return"
             /\ result.input_to_hz = SpecFactor(input_unit)
             /\ lower(input_unit) = str_rpm =>
                    RatEq(RatMul(<<1200, 1>>, result.input_to_hz), <<20, 1>>)
        ELSE result.kind \notin {"return", "running"}

\* |a| > n_sigma * np.std(x), for a >= 0, in exact arithmetic.
ExceedsThreshold(ns, x, a) ==
    LET lhs == ns * ns * ScaledVariance(x)
    IN  IF ns < 0 THEN a > 0 \/ lhs > 0
        ELSE a * a * Len(x) * Len(x) > lhs

AbsOf(x) == [i \in 1..Len(x) |-> Abs(x[i])]

\* The samples C5 says are flagged: local maxima of |sig| whose absolute
\* value exceeds n_sigma * std(sig); ascending, 0-based.
FlaggedByHeight(x, ns) ==
    LET keep(p) == ExceedsThreshold(ns, x, Abs(x[p + 1]))
    IN  SelectSeq(LocalMaxima(AbsOf(x), 2), keep)

\* C5: _clean_sig flags exactly the local maxima of |sig| whose absolute
\* value exceeds n_sigma * std(sig), returns their indices in ascending
\* order, and returns the signal with each flagged sample replaced by the
\* mean of its two neighbours and every other sample unchanged.
C5_FlagsByHeightAndAverages ==
    pc = "done" =>
        /\ result.kind = "return"
        /\ result.i_pks = FlaggedByHeight(sig.twice, n_sigma)
        /\ Len(result.sig.twice) = Len(sig.twice)
        /\ \A i \in 1..Len(sig.twice) :
              result.sig.twice[i] =
                  IF i - 1 \in Range(result.i_pks)
                  THEN (sig.twice[i - 1] + sig.twice[i + 1]) \div 2
                  ELSE sig.twice[i]

\* The first or the last sample is an outlier peak: larger in absolute value
\* than its only neighbour, by at least the threshold, and above the threshold.
BoundaryOutlier(x, ns) ==
    /\ Len(x) >= 2
    /\ \/ /\ Abs(x[1]) > Abs(x[2])
          /\ ThresholdLeq(ns, x, Abs(x[1]) - Abs(x[2]))
          /\ ExceedsThreshold(ns, x, Abs(x[1]))
       \/ /\ Abs(x[Len(x)]) > Abs(x[Len(x) - 1])
          /\ ThresholdLeq(ns, x, Abs(x[Len(x)]) - Abs(x[Len(x) - 1]))
          /\ ExceedsThreshold(ns, x, Abs(x[Len(x)]))

\* C6 as claimed: when the sample at index 0 or at the last index is an
\* outlier peak, _clean_sig fails with an IndexError.
C6_BoundaryPeakRaises ==
    (pc = "done" /\ BoundaryOutlier(sig.twice, n_sigma)) => result.kind = "IndexError"

\* C6 as amended: the sample at index 0 and the sample at the last index are
\* never detected, so _clean_sig never fails with an IndexError: it returns,
\* every flagged index lies strictly inside the signal, and the first and
\* the last sample are returned unchanged.
C6_BoundaryNeverDetected ==
    pc = "done" =>
        /\ result.kind = "return"
        /\ \A p \in Range(result.i_pks) : 0 < p /\ p < Len(sig.twice) - 1
        /\ Len(result.sig.twice) = Len(sig.twice)
        /\ Len(sig.twice) >= 1 =>
              /\ result.sig.twice[1] = sig.twice[1]
              /\ result.sig.twice[Len(sig.twice)] = sig.twice[Len(sig.twice)]

C6_Witness ==
    /\ pc = "done" /\ n_sigma >= 1 /\ Len(sig.twice) >= 3 /\ BoundaryOutlier(sig.twice, n_sigma)
    /\ result.kind = "return" /\ result.sig.twice = sig.twice

\* The value C9 gives one element of index.
StepValue(ind) ==
    IF ind <= start THEN <<init_val, 1>>
    ELSE IF ind >= end THEN <<final_val, 1>>
    ELSE Cubic(ind, start, init_val, end, final_val)

\* C9: step_function returns one value per element of index, in the order
\* of index; the docstring's call returns [0.0, 0.0, 0.5, 1.0, 1.0].
C9_OneValuePerIndexInOrder ==
    pc = "done" =>
        /\ Len(result.step) = Len(index)
        /\ \A i \in 1..Len(index) : RatEq(result.step[i], StepValue(index[i]))
        /\ DocstringCall =>
              result.step = <<<<0, 1>>, <<0, 1>>, <<1, 2>>, <<1, 1>>, <<1, 1>>>>

\* An optional single leading '-' followed by one or more digits.
IsIntLiteral(s) ==
    \/ isdigit(s)
    \/ s # <<>> /\ Head(s) = "-" /\ isdigit(Tail(s))

\* C10: str_is_int(s) is True exactly when s is an integer literal.
C10_TrueIffIntLiteral ==
    pc = "done" => (result.is_int <=> IsIntLiteral(numeric_string))

\* A condition C3 calls an invalid configuration holds of the arguments.
ConfigInvalid ==
    \/ n_fft > Len(time)
    \/ /\ input_sig.given
       /\ \/ Len(input_sig.val) # Len(time)
          \/ lower(input_unit) \notin RecognizedUnits

\* C3: fft_watefall reports every invalid configuration before any
\* computation step runs: with such a configuration the call never returns
\* a result, and it fails with no computation step completed.
C3_FailsBeforeComputing ==
    (pc = "done" /\ ConfigInvalid) =>
        /\ result.kind # "return"
        /\ done_steps = <<>>

\* Sample i (1-based) is at or after the time of bin k.
AtOrAfterBin(i, k) == ~RatLess(<<time[i] - time[1], 1>>, bins[k])

\* C7: for every order and speed bin the order cut takes the row of the
\* frequency axis nearest to (bin speed converted to Hz by the input unit)
\* x order, and the spectrogram value at that row and the bin's column; for
\* every recognized unit and every non-empty list of orders, a single order
\* included.
C7_OrderCutRowNearestOrderFrequency ==
    /\ result.kind # "TypeError"
    /\ (order_cuts.given /\ lower(input_unit) \in RecognizedUnits) =>
          \A o \in 1..Len(order_cuts.val) : \A k \in 1..Len(input_bins) :
              LET cut == order_cuts.val[o]
                  f == RatMul(RatMul(input_bins[k], SpecFactor(input_unit)),
                              <<cut.order, 1>>)
                  row == cut.i_freqs[k] + 1
              IN  /\ \A j \in 1..Len(freqs) :
                        ~RatLess(RatAbsDiff(freqs[j], f), RatAbsDiff(freqs[row], f))
                  /\ cut.amp[k] = Pxx[row][k]

\* C8: every time bin gets the absolute converted input sample at the
\* smallest index i with time[i] >= bin + time[0]; one entry per bin, in bin
\* order, none negative.
C8_BinTakesFirstSampleAtOrAfter ==
    (\E s \in 1..Len(done_steps) : done_steps[s] = "speed_bins") =>
        /\ Len(input_bins) = Len(bins)
        /\ \A k \in 1..Len(bins) :
              /\ input_bins[k][1] >= 0
              /\ \E i \in 1..Len(time) :
                    /\ AtOrAfterBin(i, k)
                    /\ \A j \in 1..(i - 1) : ~AtOrAfterBin(j, k)
                    /\ input_bins[k] =
                          RatAbs(RatMul(<<input_sig.val[i], 1>>, input_conversion_factor))

====
